---- MODULE Spec2Model ----
(***************************************************************************)
(* AirlineDB: the query/update layer (database_queries.py) over the four   *)
(* tables created and seeded by airline_database.py.                       *)
(*                                                                         *)
(* The database file flight.db is the persisted state: one variable per    *)
(* table.  Every operation of database_queries.py is one action, except    *)
(* assign_pilot, which blocks on input() and is therefore two actions:     *)
(* the call up to the first prompt, and one action per answer.             *)
(***************************************************************************)
EXTENDS Integers, Sequences, FiniteSets, TLC

VARIABLES
    d_pilot,        \* table d_pilot:       pilot_ID         -> row
    d_destination,  \* table d_destination: destination_code -> row
    d_flight,       \* table d_flight:      flight_ID        -> row
    f_schedule,     \* table f_schedule:    schedule_ID      -> row
    pc,             \* "idle": the driver is about to make a call; "awaiting":
                    \* assign_pilot blocks in input(); "returned": a call has ended
    frame,          \* locals of the assign_pilot call blocked in input()
    last,           \* the last call: operation, arguments, outcome, what it displayed
    pre             \* the four tables as they were when the last call started

vars == <<d_pilot, d_destination, d_flight, f_schedule, pc, frame, last, pre>>

(***************************************************************************)
(* Values.  Python None and SQL NULL are the same value to sqlite3.  Blob  *)
(* is a bytes object, the one Python value a STRICT TEXT column rejects.   *)
(***************************************************************************)
None == "None"
Blob == "b'x'"
NoneInt == -1       \* None passed for the integer argument schedule_id

\* The operator may answer one prompt sequence at most this many times.
MaxAnswers == 3

\* Python truthiness of an optional text argument: `if value:`
Truthy(v) == v \notin {None, ""}

\* str.lower() on the confirmation tokens
Lower(s) ==
    CASE s = "YES" -> "yes"
      [] s = "Yes" -> "yes"
      [] s = "NO" -> "no"
      [] s = "No" -> "no"
      [] s = "MAYBE" -> "maybe"
      [] OTHER -> s

\* variant of Upper: the code is used as it was typed
UpperAsTyped(s) == s

\* str.upper() on destination codes
Upper(s) ==
    CASE s = "exe" -> "EXE"
      [] s = "gci" -> "GCI"
      [] s = "Exe" -> "EXE"
      [] s = "zzz" -> "ZZZ"
      [] OTHER -> s

Range(seq) == {seq[i] : i \in DOMAIN seq}

(***************************************************************************)
(* The sample data of load_sample_data.                                    *)
(***************************************************************************)
pilots ==
    << <<"P0010001", "Bhaagyashree", "Patil", "ATPL8954", "2026-03-31", 1>>,
       <<"P0010002", "Jo", "Hyde", "ATPL5235", "2027-01-26", 1>>,
       <<"P0010003", "Christina", "Keating", "ATPL8648", "2025-09-03", 0>>,
       <<"P0010004", "Zach", "Lyons", "CPL85695", "2026-02-28", 1>>,
       <<"P0010005", "Raghubir", "Singh", "CPL64585", "2025-10-15", 0>>,
       <<"P0010006", "Matthew", "Albertyn", "CPL89563", "2026-08-22", 1>>,
       <<"P0010007", "James", "Davenport", "CPL85685", "2025-12-17", 1>>,
       <<"P0010008", "Paola", "Bruscoli", "ATPL5684", "2026-11-01", 1>>,
       <<"P0010009", "Ben", "Ralph", "CPL58695", "2026-05-08", 0>>,
       <<"P0010010", "Neil", "Langmead", "ATPL2135", "2025-06-30", 1>> >>

destinations ==
    << <<"DUB", "Dublin International", "Dublin", "Ireland">>,
       <<"EMA", "East Midlands", "Nottingham", "England">>,
       <<"BHX", "Birmingham Airport", "Birmingham", "England">>,
       <<"NWI", "Norwich International", "Norwich", "England">>,
       <<"BRS", "Bristol Airport", "Bristol", "England">>,
       <<"EXE", "Exeter Airport", "Exeter", "England">>,
       <<"SOU", "Southampton Airport", "Southampton", "England">>,
       <<"GCI", "Guernsey Airport", "Guernsey", "Channel Islands">>,
       <<"JER", "Jersey Airport", "Jersey", "Channel Islands">>,
       <<"NCL", "Newcastle International", "Newcastle", "England">>,
       <<"CDG", "Charles de Gaulle", "Paris", "France">>,
       <<"BIO", "Bilbao Airport", "Bilbao", "Spain">>,
       <<"MUC", "Munich International", "Munich", "Germany">>,
       <<"VRN", "Verona Villafranca Airport", "Verona", "Italy">>,
       <<"PMI", "Palma de Mallorca Airport", "Palma de Mallorca", "Spain">> >>

flights ==
    << <<1, "SI2206", "GCI", "JER", "08:30:00", "08:50:00">>,
       <<2, "SI3350", "JER", "SOU", "07:15:00", "08:05:00">>,
       <<3, "SI3351", "SOU", "JER", "08:35:00", "09:25:00">>,
       <<4, "SI5580", "JER", "DUB", "10:35:00", "12:20:00">>,
       <<5, "SI2206", "JER", "EXE", "09:20:00", "10:05:00">>,
       <<6, "SI2207", "EXE", "JER", "10:45:00", "11:30:00">>,
       <<7, "SI2203", "EXE", "JER", "08:35:00", "09:20:00">>,
       <<8, "SI2202", "JER", "EXE", "07:20:00", "08:05:00">>,
       <<9, "SI5552", "GCI", "JER", "12:45:00", "13:05:00">>,
       <<10, "SI5581", "DUB", "JER", "13:00:00", "14:45:00">>,
       <<11, "SI3312", "GCI", "SOU", "10:00:00", "10:45:00">>,
       <<12, "SI3328", "GCI", "SOU", "13:50:00", "14:35:00">>,
       <<13, "SI3342", "GCI", "SOU", "18:20:00", "19:05:00">>,
       <<14, "SI3329", "SOU", "GCI", "15:05:00", "15:50:00">>,
       <<15, "SI3313", "SOU", "GCI", "11:15:00", "12:00:00">> >>

schedule ==
    << <<1, "2025-04-21", None, None, 2, "P0010001", "scheduled">>,
       <<2, "2025-04-21", None, None, 3, "P0010001", "scheduled">>,
       <<3, "2025-04-21", None, None, 5, "P0010002", "scheduled">>,
       <<4, "2025-04-21", None, None, 6, "P0010002", "scheduled">>,
       <<5, "2025-04-06", None, None, 7, "P0010002", "landed">>,
       <<6, "2025-04-06", None, None, 8, "P0010002", "landed">>,
       <<7, "2025-04-07", None, None, 4, "P0010003", "landed">>,
       <<8, "2025-04-07", None, None, 10, "P0010003", "landed">>,
       <<9, "2025-04-08", None, None, 9, "P0010004", "landed">>,
       <<10, "2025-04-09", None, None, 1, None, "cancelled">>,
       <<11, "2025-04-29", None, None, 2, None, "scheduled">> >>

\* The row of a seed batch with primary key k
SeedRow(batch, k) == CHOOSE t \in Range(batch) : t[1] = k
SeedKeys(batch) == {t[1] : t \in Range(batch)}

PilotRow(t) ==
    [first_name |-> t[2], last_name |-> t[3], licence_number |-> t[4],
     licence_expiry |-> t[5], night_flag |-> t[6]]

DestinationRow(t) == [airport_name |-> t[2], city |-> t[3], country |-> t[4]]

FlightRow(t) ==
    [flight_number |-> t[2], departure_destination_code |-> t[3],
     arrival_destination_code |-> t[4], scheduled_departure_time |-> t[5],
     scheduled_arrival_time |-> t[6]]

ScheduleRow(t) ==
    [departure_date |-> t[2], actual_departure_time |-> t[3],
     actual_arrival_time |-> t[4], flight_ID |-> t[5], pilot_ID |-> t[6],
     status |-> t[7]]

\* The four tables as one value
DB == [d_pilot |-> d_pilot, d_destination |-> d_destination,
       d_flight |-> d_flight, f_schedule |-> f_schedule]

NoFrame ==
    [pilot_id |-> None, flight_number |-> None, departure_date |-> None,
     departure_city |-> None, arrival_city |-> None,
     connection |-> "none", attempts |-> 0, answer |-> None,
     opened |-> 0, closed |-> 0]

\* The record of a finished (or blocked) call
Call(op, args, outcome, opened, closed, shown) ==
    [op |-> op, args |-> args, outcome |-> outcome,
     opened |-> opened, closed |-> closed, shown |-> shown]

\* No call has been made since the driver took control
NoCall == Call("none", <<>>, "none", 0, 0, <<>>)

\* The database after create_database_tables() and load_sample_data()
Init ==
    /\ d_pilot = [k \in SeedKeys(pilots) |-> PilotRow(SeedRow(pilots, k))]
    /\ d_destination =
         [k \in SeedKeys(destinations) |-> DestinationRow(SeedRow(destinations, k))]
    /\ d_flight = [k \in SeedKeys(flights) |-> FlightRow(SeedRow(flights, k))]
    /\ f_schedule = [k \in SeedKeys(schedule) |-> ScheduleRow(SeedRow(schedule, k))]
    /\ pc = "idle"
    /\ frame = NoFrame
    /\ last = NoCall
    /\ pre = DB

(***************************************************************************)
(* Statements and transactions.                                            *)
(***************************************************************************)

\* A STRICT TEXT column stores text (and NULL where nullable) and rejects a blob
StrictText(v) == v # Blob

\* variant of ExecUpdate: the statement has no WHERE clause
ExecUpdateEveryRow(table, key, column, value) ==
    IF ~StrictText(value)
    THEN [raised |-> TRUE, table |-> table]
    ELSE [raised |-> FALSE,
          table |-> [k \in DOMAIN table |-> [table[k] EXCEPT ![column] = value]]]

\* One `UPDATE table SET column = value WHERE <key> = key`: the new table, or
\* "raised" when a row would receive a value its column cannot store.
\* A statement whose WHERE matches no row writes nothing and cannot fail.
ExecUpdate(table, key, column, value) ==
    IF key \notin DOMAIN table
    THEN [raised |-> FALSE, table |-> table]
    ELSE IF ~StrictText(value)
    THEN [raised |-> TRUE, table |-> table]
    ELSE [raised |-> FALSE,
          table |-> [table EXCEPT ![key] = [@ EXCEPT ![column] = value]]]

\* The statements of one transaction in order, stopping at the first that raises
RECURSIVE ExecAll(_, _, _)
ExecAll(table, key, stmts) ==
    IF stmts = <<>>
    THEN [raised |-> FALSE, table |-> table]
    ELSE LET r == ExecUpdate(table, key, Head(stmts)[1], Head(stmts)[2])
         IN  IF r.raised THEN r ELSE ExecAll(r.table, key, Tail(stmts))

\* A variant of Persisted in which every statement is committed as it runs
PersistedPerStatement(committed, tx) == tx.table

\* BEGIN ... connection.commit(): what the database file holds afterwards.
\* An exception leaves the function before commit(); the connection is then
\* dropped with its transaction open, which rolls it back.
Persisted(committed, tx) == IF tx.raised THEN committed ELSE tx.table

(***************************************************************************)
(* The reads: fetch_flights, fetch_pilots, fetch_destinations.  A result   *)
(* row carries the keys of the table rows it was joined from (an integer   *)
(* key that is NULL is NoneInt) and the columns the query selects or       *)
(* filters on.                                                             *)
(***************************************************************************)

\* A column of the row with key k, NULL when a LEFT JOIN found no such row
Col(table, k, column) == IF k \in DOMAIN table THEN table[k][column] ELSE None

\* where_criteria/fields: one <<column, value>> per argument that is truthy
Criterion(column, value) == IF Truthy(value) THEN << <<column, value>> >> ELSE <<>>

\* `WHERE c1 = ? AND c2 = ? ...`: a NULL column equals nothing
Where(rows, where_criteria) ==
    {r \in rows : \A i \in DOMAIN where_criteria :
                     r[where_criteria[i][1]] = where_criteria[i][2]}

\* variant of FlightLeftJoinSchedule: the join has no ON condition
FlightCrossJoinSchedule(db) ==
    {<<f, k>> : f \in DOMAIN db.d_flight, k \in DOMAIN db.f_schedule}

\* d_flight df LEFT JOIN f_schedule fs ON df.flight_ID = fs.flight_ID
FlightLeftJoinSchedule(db) ==
    LET matches(f) == {k \in DOMAIN db.f_schedule : db.f_schedule[k].flight_ID = f}
    IN  UNION {IF matches(f) = {} THEN {<<f, NoneInt>>}
                                  ELSE {<<f, k>> : k \in matches(f)}
               : f \in DOMAIN db.d_flight}

\* variant of flight_query_row: the arrival city is read from dd1
flight_query_row_dd1(db, f, k) ==
    LET df == db.d_flight[f]
        fs_pilot == IF k = NoneInt THEN None ELSE db.f_schedule[k].pilot_ID
    IN  [flight_ID |-> f, schedule_ID |-> k,
         flight_number |-> df.flight_number,
         departure_airport_name |->
             Col(db.d_destination, df.departure_destination_code, "airport_name"),
         arrival_airport_name |->
             Col(db.d_destination, df.arrival_destination_code, "airport_name"),
         departure_city |->
             Col(db.d_destination, df.departure_destination_code, "city"),
         arrival_city |->
             Col(db.d_destination, df.departure_destination_code, "city"),
         scheduled_departure_time |-> df.scheduled_departure_time,
         scheduled_arrival_time |-> df.scheduled_arrival_time,
         departure_date |-> Col(db.f_schedule, k, "departure_date"),
         pilot_ID |-> IF fs_pilot \in DOMAIN db.d_pilot THEN fs_pilot ELSE None,
         status |-> Col(db.f_schedule, k, "status")]

\* One row of flight_query: df, fs, then LEFT JOIN dd1, dd2 on the two
\* destination codes and LEFT JOIN d_pilot dp on fs.pilot_ID
flight_query_row(db, f, k) ==
    LET df == db.d_flight[f]
        fs_pilot == IF k = NoneInt THEN None ELSE db.f_schedule[k].pilot_ID
    IN  [flight_ID |-> f, schedule_ID |-> k,
         flight_number |-> df.flight_number,
         departure_airport_name |->
             Col(db.d_destination, df.departure_destination_code, "airport_name"),
         arrival_airport_name |->
             Col(db.d_destination, df.arrival_destination_code, "airport_name"),
         departure_city |->
             Col(db.d_destination, df.departure_destination_code, "city"),
         arrival_city |->
             Col(db.d_destination, df.arrival_destination_code, "city"),
         scheduled_departure_time |-> df.scheduled_departure_time,
         scheduled_arrival_time |-> df.scheduled_arrival_time,
         departure_date |-> Col(db.f_schedule, k, "departure_date"),
         pilot_ID |-> IF fs_pilot \in DOMAIN db.d_pilot THEN fs_pilot ELSE None,
         status |-> Col(db.f_schedule, k, "status")]

flight_query(db) ==
    {flight_query_row(db, p[1], p[2]) : p \in FlightLeftJoinSchedule(db)}

fetch_flights(db, flight_number, departure_city, arrival_city, departure_date, flight_status) ==
    LET where_criteria ==
            Criterion("flight_number", flight_number)
            \o Criterion("departure_city", departure_city)
            \o Criterion("arrival_city", arrival_city)
            \o Criterion("departure_date", departure_date)
            \o Criterion("status", flight_status)
    IN  Where(flight_query(db), where_criteria)

\* f_schedule fs JOIN d_pilot dp JOIN d_flight df JOIN d_destination dd1, dd2:
\* an inner join keeps a schedule row only if every joined row exists
pilot_query(db) ==
    LET joins(k) ==
            LET fs == db.f_schedule[k]
            IN  /\ fs.pilot_ID \in DOMAIN db.d_pilot
                /\ fs.flight_ID \in DOMAIN db.d_flight
                /\ db.d_flight[fs.flight_ID].departure_destination_code
                       \in DOMAIN db.d_destination
                /\ db.d_flight[fs.flight_ID].arrival_destination_code
                       \in DOMAIN db.d_destination
        row(k) ==
            LET fs == db.f_schedule[k]
                dp == db.d_pilot[fs.pilot_ID]
                df == db.d_flight[fs.flight_ID]
            IN  [schedule_ID |-> k, departure_date |-> fs.departure_date,
                 flight_ID |-> fs.flight_ID, status |-> fs.status,
                 pilot_ID |-> fs.pilot_ID, first_name |-> dp.first_name,
                 last_name |-> dp.last_name,
                 scheduled_departure_time |-> df.scheduled_departure_time,
                 scheduled_arrival_time |-> df.scheduled_arrival_time,
                 departure_city |->
                     db.d_destination[df.departure_destination_code].city,
                 arrival_city |->
                     db.d_destination[df.arrival_destination_code].city]
    IN  {row(k) : k \in {j \in DOMAIN db.f_schedule : joins(j)}}

fetch_pilots(db, pilot_id, first_name, last_name) ==
    LET where_criteria ==
            Criterion("pilot_ID", pilot_id)
            \o Criterion("first_name", first_name)
            \o Criterion("last_name", last_name)
    IN  Where(pilot_query(db), where_criteria)

destination_query(db) ==
    {[destination_code |-> k, airport_name |-> db.d_destination[k].airport_name,
      city |-> db.d_destination[k].city, country |-> db.d_destination[k].country]
     : k \in DOMAIN db.d_destination}

fetch_destinations(db, destination_code, airport_name, city, country) ==
    LET where_criteria ==
            Criterion("destination_code", destination_code)
            \o Criterion("airport_name", airport_name)
            \o Criterion("city", city)
            \o Criterion("country", country)
    IN  Where(destination_query(db), where_criteria)

\* A read called on its own: it displays its result and changes no table
Read(op, args, result) ==
    /\ pc = "idle"
    /\ pc' = "returned"
    /\ pre' = DB
    /\ last' = Call(op, args, "Displayed", 1, 1, <<result>>)
    /\ UNCHANGED <<d_pilot, d_destination, d_flight, f_schedule, frame>>

FlightNumbers == {None, "SI2206"}
DepartureCities == {None, "Jersey"}
ArrivalCities == {None, "", "Jersey"}
DepartureDates == {None, "2025-04-21"}
FlightStatuses == {None, "scheduled"}

\* fetch_flights is also asked for a flight number that assign_pilot is never given
FetchFlightNumbers == FlightNumbers \cup {"SI2203"}

FetchFlights ==
    \E flight_number \in FetchFlightNumbers, departure_city \in DepartureCities,
       arrival_city \in ArrivalCities, departure_date \in DepartureDates,
       flight_status \in FlightStatuses :
        Read("fetch_flights",
             [flight_number |-> flight_number, departure_city |-> departure_city,
              arrival_city |-> arrival_city, departure_date |-> departure_date,
              flight_status |-> flight_status],
             fetch_flights(DB, flight_number, departure_city, arrival_city,
                           departure_date, flight_status))

PilotIds == {None, "", "P0010007"}
FirstNames == {None, "James"}
LastNames == {None, "Davenport", "Hyde"}

FetchPilots ==
    \E pilot_id \in PilotIds, first_name \in FirstNames, last_name \in LastNames :
        Read("fetch_pilots",
             [pilot_id |-> pilot_id, first_name |-> first_name,
              last_name |-> last_name],
             fetch_pilots(DB, pilot_id, first_name, last_name))

AirportNames == {None, "Jersey Airport"}
Countries == {None, "Channel Islands"}

FetchDestinations ==
    \E destination_code \in {None, "EXE"}, airport_name \in AirportNames,
       city \in {None, "", "Jersey"}, country \in Countries :
        Read("fetch_destinations",
             [destination_code |-> destination_code, airport_name |-> airport_name,
              city |-> city, country |-> country],
             fetch_destinations(DB, destination_code, airport_name, city, country))

(***************************************************************************)
(* modify_schedule                                                         *)
(***************************************************************************)

\* variant of IsNone: the check for a missing schedule ID is not made
IsNoneUnchecked(schedule_id) == FALSE

\* `if schedule_id is None`
IsNone(schedule_id) == schedule_id = NoneInt

\* variant of schedule_lookup without its WHERE clause
schedule_lookup_all(table, schedule_id) ==
    {[schedule_ID |-> k, row |-> table[k]] : k \in DOMAIN table}

\* `SELECT ... FROM f_schedule WHERE schedule_ID = ?`
schedule_lookup(table, schedule_id) ==
    {[schedule_ID |-> k, row |-> table[k]] : k \in DOMAIN table \cap {schedule_id}}

\* The UPDATE statements modify_schedule issues, in order
schedule_modification(new_departure_time, new_arrival_time, new_status) ==
    (IF Truthy(new_departure_time)
        THEN << <<"actual_departure_time", new_departure_time>> >> ELSE <<>>)
    \o (IF Truthy(new_arrival_time)
        THEN << <<"actual_arrival_time", new_arrival_time>> >> ELSE <<>>)
    \o (IF Truthy(new_status) THEN << <<"status", new_status>> >> ELSE <<>>)

modify_schedule(schedule_id, new_departure_time, new_arrival_time, new_status) ==
    LET args == [schedule_id |-> schedule_id,
                 new_departure_time |-> new_departure_time,
                 new_arrival_time |-> new_arrival_time,
                 new_status |-> new_status]
        schedule_result == schedule_lookup(f_schedule, schedule_id)
        tx == ExecAll(f_schedule, schedule_id,
                      schedule_modification(new_departure_time, new_arrival_time,
                                            new_status))
        committed == Persisted(f_schedule, tx)
    IN
    /\ pc = "idle"
    /\ pc' = "returned"
    /\ pre' = DB
    /\ UNCHANGED <<d_pilot, d_destination, d_flight, frame>>
    /\ IF IsNone(schedule_id)
       THEN /\ last' = Call("modify_schedule", args, "MissingArgument", 0, 0, <<>>)
            /\ UNCHANGED f_schedule
       ELSE IF schedule_result = {}
       THEN /\ last' = Call("modify_schedule", args, "NotFound", 1, 0, <<{}>>)
            /\ UNCHANGED f_schedule
       ELSE IF tx.raised
       THEN /\ last' = Call("modify_schedule", args, "IntegrityError", 1, 0,
                            <<schedule_result>>)
            /\ f_schedule' = committed
       ELSE /\ last' = Call("modify_schedule", args, "Updated", 1, 1,
                            <<schedule_result, schedule_lookup(committed, schedule_id)>>)
            /\ f_schedule' = committed

\* Arguments the calls are made with
ScheduleIds == {NoneInt, 2, 99}
DepartureTimes == {None, "", "12:00"}
ArrivalTimes == {None, "13:00"}
Statuses == {None, "delayed", Blob}

\* variant of ModifySchedule: the new departure time is written to the
\* scheduled departure time of the flight, not to the schedule row
ModifyScheduleFlightTime ==
    \E schedule_id \in ScheduleIds, new_departure_time \in DepartureTimes :
        /\ pc = "idle"
        /\ schedule_id \in DOMAIN f_schedule
        /\ Truthy(new_departure_time)
        /\ pc' = "returned"
        /\ pre' = DB
        /\ d_flight' = [d_flight EXCEPT
                           ![f_schedule[schedule_id].flight_ID].scheduled_departure_time
                               = new_departure_time]
        /\ last' = Call("modify_schedule",
                        [schedule_id |-> schedule_id,
                         new_departure_time |-> new_departure_time,
                         new_arrival_time |-> None, new_status |-> None],
                        "Updated", 1, 1,
                        <<schedule_lookup(f_schedule, schedule_id),
                          schedule_lookup(f_schedule, schedule_id)>>)
        /\ UNCHANGED <<d_pilot, d_destination, f_schedule, frame>>

ModifySchedule ==
    \E schedule_id \in ScheduleIds, new_departure_time \in DepartureTimes,
       new_arrival_time \in ArrivalTimes, new_status \in Statuses :
        modify_schedule(schedule_id, new_departure_time, new_arrival_time, new_status)

(***************************************************************************)
(* modify_destination                                                      *)
(***************************************************************************)

\* The UPDATE statements modify_destination issues, in order
destination_modification(airport_name, city, country) ==
    Criterion("airport_name", airport_name)
    \o Criterion("city", city)
    \o Criterion("country", country)

modify_destination(code, airport_name, city, country) ==
    LET args == [destination_code |-> code, airport_name |-> airport_name,
                 city |-> city, country |-> country]
        destination_code == Upper(code)
        before == fetch_destinations(DB, destination_code, None, None, None)
        tx == ExecAll(d_destination, destination_code,
                      destination_modification(airport_name, city, country))
        committed == Persisted(d_destination, tx)
        after == fetch_destinations([DB EXCEPT !.d_destination = committed],
                                    destination_code, None, None, None)
    IN
    /\ pc = "idle"
    /\ pc' = "returned"
    /\ pre' = DB
    /\ UNCHANGED <<d_pilot, d_flight, f_schedule, frame>>
    /\ IF code = None
       THEN /\ last' = Call("modify_destination", args, "MissingArgument", 0, 0, <<>>)
            /\ UNCHANGED d_destination
       ELSE IF tx.raised
       THEN /\ last' = Call("modify_destination", args, "IntegrityError", 2, 1,
                            <<before>>)
            /\ d_destination' = committed
       ELSE /\ last' = Call("modify_destination", args, "Updated", 3, 3,
                            <<before, after>>)
            /\ d_destination' = committed

DestinationCodes == {None, "", "exe", "GCI", "zzz"}
Cities == {None, "Jersey", Blob}

ModifyDestination ==
    \E code \in DestinationCodes, airport_name \in AirportNames,
       city \in Cities, country \in Countries :
        modify_destination(code, airport_name, city, country)

(***************************************************************************)
(* assign_pilot                                                            *)
(***************************************************************************)

\* PRAGMA foreign_keys is a per-connection setting that is off by default;
\* open_connection() of database_queries.py does not turn it on.
foreign_keys == FALSE

\* all([flight_number, departure_date, departure_city, arrival_city])
all(values) == \A i \in DOMAIN values : Truthy(values[i])

\* variant of flight_id_lookup: the arrival city is not part of the WHERE clause
flight_id_lookup_no_arrival(db, flight_number, departure_city, arrival_city) ==
    {f \in DOMAIN db.d_flight :
        /\ db.d_flight[f].flight_number = flight_number
        /\ Col(db.d_destination, db.d_flight[f].departure_destination_code, "city")
               = departure_city}

\* The flight_ID values `flight_id_lookup` selects
flight_id_lookup(db, flight_number, departure_city, arrival_city) ==
    {f \in DOMAIN db.d_flight :
        /\ db.d_flight[f].flight_number = flight_number
        /\ Col(db.d_destination, db.d_flight[f].departure_destination_code, "city")
               = departure_city
        /\ Col(db.d_destination, db.d_flight[f].arrival_destination_code, "city")
               = arrival_city}

\* `UPDATE f_schedule SET pilot_id = ? WHERE flight_id = ? AND departure_date = ?`
pilot_assignment(db, pilot_id, flight_id, departure_date) ==
    [k \in DOMAIN db.f_schedule |->
        IF /\ db.f_schedule[k].flight_ID = flight_id
           /\ db.f_schedule[k].departure_date = departure_date
        THEN [db.f_schedule[k] EXCEPT !.pilot_ID = pilot_id]
        ELSE db.f_schedule[k]]

\* variant of Decision with the two recognised answers exchanged
DecisionSwapped(confirmation_decision) ==
    IF confirmation_decision = "no" THEN "yes"
    ELSE IF confirmation_decision = "yes" THEN "no"
    ELSE "other"

\* The branch of the confirmation loop the lower-cased answer takes
Decision(confirmation_decision) ==
    IF confirmation_decision = "no" THEN "no"
    ELSE IF confirmation_decision = "yes" THEN "yes"
    ELSE "other"

\* variant of Complete that accepts any one of the four values
CompleteAny(values) == \E i \in DOMAIN values : Truthy(values[i])

\* `if not all([...])` lets the call go on to the prompt
Complete(values) == all(values)

\* The call up to the first input(): it ends early, or blocks at the prompt
assign_pilot(pilot_id, flight_number, departure_date, departure_city, arrival_city) ==
    LET args == [pilot_id |-> pilot_id, flight_number |-> flight_number,
                 departure_date |-> departure_date,
                 departure_city |-> departure_city, arrival_city |-> arrival_city]
        pilot_schedule == fetch_pilots(DB, pilot_id, None, None)
        flight_state == fetch_flights(DB, flight_number, departure_city,
                                      arrival_city, departure_date, None)
    IN
    /\ pc = "idle"
    /\ pre' = DB
    /\ UNCHANGED <<d_pilot, d_destination, d_flight, f_schedule>>
    /\ IF pilot_id = None
       THEN /\ last' = Call("assign_pilot", args, "MissingArgument", 1, 1, <<>>)
            /\ pc' = "returned"
            /\ UNCHANGED frame
       ELSE IF ~Complete(<<flight_number, departure_date, departure_city,
                           arrival_city>>)
       THEN /\ last' = Call("assign_pilot", args, "IncompleteCriteria", 2, 1,
                            <<pilot_schedule>>)
            /\ pc' = "returned"
            /\ UNCHANGED frame
       ELSE /\ last' = Call("assign_pilot", args, "AwaitingConfirmation", 3, 2,
                            <<pilot_schedule, flight_state>>)
            /\ pc' = "awaiting"
            /\ frame' = args @@
                        [connection |-> "open", attempts |-> 0, answer |-> None,
                         opened |-> 3, closed |-> 2]

\* One answer typed at the prompt
confirm(answer) ==
    LET confirmation_decision == Lower(answer)
        args == last.args
        matches == flight_id_lookup(DB, frame.flight_number, frame.departure_city,
                                    frame.arrival_city)
        asked(outcome, opened, closed) ==
            [Call("assign_pilot", args, outcome, opened, closed, <<>>)
                EXCEPT !.shown = last.shown]
    IN
    /\ pc = "awaiting"
    /\ UNCHANGED <<d_pilot, d_destination, d_flight, pre>>
    /\ CASE Decision(confirmation_decision) = "no" ->
              \* break: nothing after the loop, `connection` is left as it is
              /\ last' = asked("Aborted", frame.opened, frame.closed)
              /\ pc' = "returned"
              /\ frame' = [frame EXCEPT !.answer = answer,
                                        !.attempts = @ + 1]
              /\ UNCHANGED f_schedule
         [] Decision(confirmation_decision) = "yes" ->
              IF matches = {}
              THEN /\ last' = asked("NotFound", frame.opened + 1, frame.closed)
                   /\ pc' = "returned"
                   /\ frame' = [frame EXCEPT !.answer = answer,
                                             !.attempts = @ + 1,
                                             !.connection = "open"]
                   /\ UNCHANGED f_schedule
              ELSE \* fetchone() of a SELECT without ORDER BY: any matching row
                   \E flight_id \in matches :
                   LET assigned == pilot_assignment(DB, frame.pilot_id, flight_id,
                                                    frame.departure_date)
                   IN
                   /\ pc' = "returned"
                   /\ IF /\ foreign_keys
                         /\ assigned # f_schedule
                         /\ frame.pilot_id \notin DOMAIN d_pilot
                      THEN \* the engine rejects the dangling reference
                           /\ last' = asked("IntegrityError", frame.opened + 1,
                                            frame.closed)
                           /\ frame' = [frame EXCEPT !.answer = answer,
                                                     !.attempts = @ + 1,
                                                     !.connection = "open"]
                           /\ UNCHANGED f_schedule
                      ELSE /\ f_schedule' = assigned
                           /\ last' = asked("Assigned", frame.opened + 3,
                                            frame.closed + 3)
                           /\ frame' = [frame EXCEPT !.answer = answer,
                                                     !.attempts = @ + 1,
                                                     !.connection = "closed"]
         [] OTHER ->
              \* neither branch: the two displays, then close_connection() on
              \* the connection of the call, and round the loop again
              /\ frame.attempts < MaxAnswers
              /\ UNCHANGED f_schedule
              /\ IF frame.connection = "closed"
                 THEN \* cursor.close() on a closed connection raises
                      /\ last' = asked("ProgrammingError", frame.opened + 2,
                                       frame.closed + 2)
                      /\ pc' = "returned"
                      /\ frame' = [frame EXCEPT !.answer = answer,
                                                !.attempts = @ + 1]
                 ELSE /\ last' = asked("AwaitingConfirmation", frame.opened + 2,
                                       frame.closed + 3)
                      /\ pc' = "awaiting"
                      /\ frame' = [frame EXCEPT !.answer = answer,
                                                !.attempts = @ + 1,
                                                !.connection = "closed",
                                                !.opened = @ + 2,
                                                !.closed = @ + 3]

AssignPilotIds == {None, "P0010007", "P9999999"}
AssignCities == {None, "Jersey", "Exeter"}
Answers == {"yes", "YES", "no", "No", "maybe", ""}

AssignPilot ==
    \E pilot_id \in AssignPilotIds, flight_number \in FlightNumbers,
       departure_date \in DepartureDates, departure_city \in DepartureCities,
       arrival_city \in AssignCities :
        assign_pilot(pilot_id, flight_number, departure_date, departure_city,
                     arrival_city)

Confirm == \E answer \in Answers : confirm(answer)

(***************************************************************************)
(* The summaries: unassigned_flights, flights_per_pilot and                *)
(* flights_per_destination.  Each opens a connection, runs one SELECT,     *)
(* closes the connection and prints what it fetched.                       *)
(***************************************************************************)

\* `SELECT COUNT(schedule_id) FROM f_schedule WHERE pilot_id IS null`: a scan
\* over the rows with the given keys
RECURSIVE count_pilot_id_is_null(_, _)
count_pilot_id_is_null(table, keys) ==
    IF keys = {}
    THEN 0
    ELSE LET k == CHOOSE x \in keys : TRUE
         IN  (IF table[k].pilot_ID = None THEN 1 ELSE 0)
                 + count_pilot_id_is_null(table, keys \ {k})

\* variant of unassigned_message without the branch for a single flight
unassigned_message_plural(result) ==
    IF result = 0 THEN "No scheduled flights are lacking"
    ELSE "There are"

\* The wording printed for the count
unassigned_message(result) ==
    IF result = 0 THEN "No scheduled flights are lacking"
    ELSE IF result = 1 THEN "There is"
    ELSE "There are"

unassigned_flights(db) ==
    LET result == count_pilot_id_is_null(db.f_schedule, DOMAIN db.f_schedule)
    IN  [result |-> result, message |-> unassigned_message(result)]

\* variant of flights_per_pilot that counts the rows with status 'scheduled' only
flights_per_pilot_scheduled(db) ==
    LET fs == db.f_schedule
        rows == {k \in DOMAIN fs : fs[k].pilot_ID # None /\ fs[k].status = "scheduled"}
        group(k) == <<fs[k].pilot_ID, Col(db.d_pilot, fs[k].pilot_ID, "first_name"),
                      Col(db.d_pilot, fs[k].pilot_ID, "last_name")>>
    IN  {[pilot_id |-> g[1], first_name |-> g[2], last_name |-> g[3],
          flight_count |-> Cardinality({k \in rows : group(k) = g})]
         : g \in {group(k) : k \in rows}}

\* f_schedule fs LEFT JOIN d_pilot dp WHERE fs.pilot_id IS NOT NULL
\* GROUP BY fs.pilot_id, dp.first_name, dp.last_name: one row per group
flights_per_pilot(db) ==
    LET fs == db.f_schedule
        rows == {k \in DOMAIN fs : fs[k].pilot_ID # None}
        group(k) == <<fs[k].pilot_ID, Col(db.d_pilot, fs[k].pilot_ID, "first_name"),
                      Col(db.d_pilot, fs[k].pilot_ID, "last_name")>>
    IN  {[pilot_id |-> g[1], first_name |-> g[2], last_name |-> g[3],
          flight_count |-> Cardinality({k \in rows : group(k) = g})]
         : g \in {group(k) : k \in rows}}

\* f_schedule fs LEFT JOIN d_flight df LEFT JOIN d_destination dd2
\* WHERE fs.status = "scheduled" GROUP BY dd2.airport_name.
\* dd2.city and dd2.country are neither grouped nor aggregated: SQLite takes
\* them from any one row of the group, so a group whose rows differ in them
\* has more than one possible result row.  The value is the set of results
\* the query can return (ORDER BY only arranges the rows of a result).
flights_per_destination(db) ==
    LET fs == db.f_schedule
        rows == {k \in DOMAIN fs : fs[k].status = "scheduled"}
        dd2(k) == Col(db.d_flight, fs[k].flight_ID, "arrival_destination_code")
        airport_name(k) == Col(db.d_destination, dd2(k), "airport_name")
        groups == {airport_name(k) : k \in rows}
        members(n) == {k \in rows : airport_name(k) = n}
        entries(n) ==
            {[airport_name |-> n,
              city |-> Col(db.d_destination, dd2(k), "city"),
              country |-> Col(db.d_destination, dd2(k), "country"),
              flight_count |-> Cardinality(members(n))] : k \in members(n)}
        picks == {g \in [groups -> UNION {entries(n) : n \in groups}] :
                     \A n \in groups : g[n] \in entries(n)}
    IN  {{g[n] : n \in groups} : g \in picks}

UnassignedFlights == Read("unassigned_flights", <<>>, unassigned_flights(DB))

FlightsPerPilot == Read("flights_per_pilot", <<>>, flights_per_pilot(DB))

FlightsPerDestination ==
    /\ pc = "idle"
    /\ \E result \in flights_per_destination(DB) :
          Read("flights_per_destination", <<>>, result)

(***************************************************************************)
(* The seed loader: load_sample_data of airline_database.py.  Its          *)
(* connection is opened with isolation_level=None, so every INSERT of an   *)
(* executemany is committed as it runs, and it does not turn foreign keys  *)
(* on, so the only constraint a seed row can violate is its primary key.   *)
(***************************************************************************)

\* A seed batch as the <<primary key, row>> pairs its INSERTs write, in order
Keyed(batch, table) ==
    LET Row(t) == CASE table = "d_pilot" -> PilotRow(t)
                    [] table = "d_destination" -> DestinationRow(t)
                    [] table = "d_flight" -> FlightRow(t)
                    [] table = "f_schedule" -> ScheduleRow(t)
    IN  [i \in DOMAIN batch |-> <<batch[i][1], Row(batch[i])>>]

\* Rows in the four batches
SeedSize == Len(pilots) + Len(destinations) + Len(flights) + Len(schedule)

\* cursor.executemany('INSERT INTO ...', batch): the rows are inserted in
\* order; the first one whose key is already in the table raises
\* IntegrityError and ends the batch, the rows before it stay.  `rows` is
\* how many more INSERTs the process lives to make (killed: it ended first).
RECURSIVE executemany(_, _, _)
executemany(table, batch, rows) ==
    IF batch = <<>>
    THEN [raised |-> FALSE, killed |-> FALSE, table |-> table, rows |-> rows]
    ELSE IF Head(batch)[1] \in DOMAIN table
    THEN [raised |-> TRUE, killed |-> FALSE, table |-> table, rows |-> rows]
    ELSE IF rows = 0
    THEN [raised |-> FALSE, killed |-> TRUE, table |-> table, rows |-> rows]
    ELSE executemany(table @@ (Head(batch)[1] :> Head(batch)[2]), Tail(batch),
                     rows - 1)

\* The four try/except blocks in order: an IntegrityError is caught and
\* reported, and the next batch is inserted whatever became of the last one
InsertBatches(db, rows) ==
    LET skipped(table) ==
            [raised |-> FALSE, killed |-> TRUE, table |-> table, rows |-> 0]
        p == executemany(db.d_pilot, Keyed(pilots, "d_pilot"), rows)
        d == IF p.killed THEN skipped(db.d_destination)
             ELSE executemany(db.d_destination, Keyed(destinations, "d_destination"),
                              p.rows)
        f == IF d.killed THEN skipped(db.d_flight)
             ELSE executemany(db.d_flight, Keyed(flights, "d_flight"), d.rows)
        s == IF f.killed THEN skipped(db.f_schedule)
             ELSE executemany(db.f_schedule, Keyed(schedule, "f_schedule"), f.rows)
    IN  [db |-> [d_pilot |-> p.table, d_destination |-> d.table,
                 d_flight |-> f.table, f_schedule |-> s.table],
         reported |-> [d_pilot |-> p.raised, d_destination |-> d.raised,
                       d_flight |-> f.raised, f_schedule |-> s.raised],
         outcome |-> IF s.killed THEN "Killed" ELSE "Seeded"]

\* variant of load_sample_data without the except clauses: the first
\* IntegrityError leaves the function and the later batches are not inserted
load_sample_data_uncaught(db) ==
    LET p == executemany(db.d_pilot, Keyed(pilots, "d_pilot"), SeedSize)
        d == executemany(db.d_destination, Keyed(destinations, "d_destination"),
                         SeedSize)
        f == executemany(db.d_flight, Keyed(flights, "d_flight"), SeedSize)
        s == executemany(db.f_schedule, Keyed(schedule, "f_schedule"), SeedSize)
        none == [d_pilot |-> FALSE, d_destination |-> FALSE, d_flight |-> FALSE,
                 f_schedule |-> FALSE]
    IN  IF p.raised
        THEN [db |-> [db EXCEPT !.d_pilot = p.table],
              reported |-> none, outcome |-> "IntegrityError"]
        ELSE IF d.raised
        THEN [db |-> [db EXCEPT !.d_pilot = p.table, !.d_destination = d.table],
              reported |-> none, outcome |-> "IntegrityError"]
        ELSE IF f.raised
        THEN [db |-> [db EXCEPT !.d_pilot = p.table, !.d_destination = d.table,
                                !.d_flight = f.table],
              reported |-> none, outcome |-> "IntegrityError"]
        ELSE [db |-> [d_pilot |-> p.table, d_destination |-> d.table,
                      d_flight |-> f.table, f_schedule |-> s.table],
              reported |-> none,
              outcome |-> IF s.raised THEN "IntegrityError" ELSE "Seeded"]

\* load_sample_data() run to its end
load_sample_data(db) == InsertBatches(db, SeedSize)

\* A run of the loader: the tables it leaves, what it reported and how it ended
Load(run, closed) ==
    /\ pc = "idle"
    /\ pc' = "returned"
    /\ pre' = DB
    /\ d_pilot' = run.db.d_pilot
    /\ d_destination' = run.db.d_destination
    /\ d_flight' = run.db.d_flight
    /\ f_schedule' = run.db.f_schedule
    /\ last' = Call("load_sample_data", <<>>, run.outcome, 1, closed,
                    <<run.reported>>)
    /\ UNCHANGED frame

LoadSampleData ==
    /\ pc = "idle"
    /\ \E run \in {load_sample_data(DB)} : Load(run, 1)

\* The process may be ended from outside between two INSERTs; the model
\* takes every KillStride-th INSERT as such a point
KillStride == 3

LoadSampleDataKilled ==
    /\ pc = "idle"
    /\ \E rows \in {n \in 0 .. (SeedSize - 1) : n % KillStride = 0} :
          \E run \in {InsertBatches(DB, rows)} :
              /\ run.outcome = "Killed"
              /\ Load(run, 0)

(***************************************************************************)
(* The driver: run_queries.py makes one call after another, main.py loops  *)
(* over the menu.  When a call has ended its report is gone and the next   *)
(* call starts from the database the call left behind.                     *)
(***************************************************************************)
Return ==
    /\ pc = "returned"
    /\ pc' = "idle"
    /\ last' = NoCall
    /\ pre' = DB
    /\ frame' = NoFrame
    /\ UNCHANGED <<d_pilot, d_destination, d_flight, f_schedule>>

Next ==
    \/ ModifySchedule
    \/ FetchFlights
    \/ FetchPilots
    \/ FetchDestinations
    \/ ModifyDestination
    \/ AssignPilot
    \/ Confirm
    \/ UnassignedFlights
    \/ FlightsPerPilot
    \/ FlightsPerDestination
    \/ LoadSampleData
    \/ Return

Spec == Init /\ [][Next]_vars

(***************************************************************************)
(* Seeding: the loader run on the empty tables, run again, and cut short. *)
(***************************************************************************)
\* The database after create_database_tables() alone: four empty tables
SeedInit ==
    /\ d_pilot = <<>>
    /\ d_destination = <<>>
    /\ d_flight = <<>>
    /\ f_schedule = <<>>
    /\ pc = "idle"
    /\ frame = NoFrame
    /\ last = NoCall
    /\ pre = DB

SeedNext ==
    \/ LoadSampleData
    \/ LoadSampleDataKilled
    \/ Return

SeedSpec == SeedInit /\ [][SeedNext]_vars

(***************************************************************************)
(* The roster: the calls that give a pilot to the schedules of the sample  *)
(* data, with the summaries that count pilot references.  The flights are  *)
(* those of the two seeded schedules without a pilot (10 and 11) and the   *)
(* one run_queries.py assigns.                                             *)
(***************************************************************************)
RosterPilotIds == {"P0010007", "P9999999"}

RosterFlights ==
    {<<"SI2206", "2025-04-09", "Guernsey", "Jersey">>,
     <<"SI3350", "2025-04-29", "Jersey", "Southampton">>,
     <<"SI2207", "2025-04-21", "Exeter", "Jersey">>}

AssignRoster ==
    \E pilot_id \in RosterPilotIds, flight \in RosterFlights :
        assign_pilot(pilot_id, flight[1], flight[2], flight[3], flight[4])

RosterNext ==
    \/ AssignRoster
    \/ Confirm
    \/ UnassignedFlights
    \/ FlightsPerPilot
    \/ FetchPilots
    \/ Return

RosterSpec == Init /\ [][RosterNext]_vars

(***************************************************************************)
(* Properties.                                                             *)
(***************************************************************************)

\* The optional fields of a modify_schedule call that are applied, with the
\* column each is written to
SuppliedScheduleFields(args) ==
    {p \in {<<"actual_departure_time", args.new_departure_time>>,
            <<"actual_arrival_time", args.new_arrival_time>>,
            <<"status", args.new_status>>} : Truthy(p[2])}

\* C1: modify_schedule on an existing schedule ID with two or more fields
\* supplied is all-or-nothing: afterwards the row holds every supplied value,
\* or a statement failed and the row is exactly what it was before the call.
C1_AllOrNothing ==
    (/\ last.op = "modify_schedule"
     /\ last.args.schedule_id \in DOMAIN pre.f_schedule
     /\ Cardinality(SuppliedScheduleFields(last.args)) >= 2)
    => \/ /\ last.outcome = "Updated"
          /\ \A p \in SuppliedScheduleFields(last.args) :
                f_schedule[last.args.schedule_id][p[1]] = p[2]
       \/ /\ last.outcome = "IntegrityError"
          /\ f_schedule[last.args.schedule_id] = pre.f_schedule[last.args.schedule_id]

\* A first statement that succeeded, a later one that failed, the row unchanged
C1_Witness ==
    /\ last.op = "modify_schedule"
    /\ last.args.schedule_id \in DOMAIN pre.f_schedule
    /\ last.args.new_departure_time = "12:00"
    /\ last.args.new_status = Blob
    /\ last.outcome = "IntegrityError"
    /\ f_schedule = pre.f_schedule

\* C2: modify_schedule with a schedule ID that identifies no schedule row
\* reports NotFound and leaves every row of every table unchanged.
C2_UnknownScheduleId ==
    (/\ last.op = "modify_schedule"
     /\ last.args.schedule_id # NoneInt
     /\ last.args.schedule_id \notin DOMAIN pre.f_schedule)
    => /\ last.outcome = "NotFound"
       /\ DB = pre

C2_Witness ==
    /\ last.op = "modify_schedule"
    /\ last.args.schedule_id = 99
    /\ last.args.new_status = "delayed"
    /\ last.args.new_arrival_time = "13:00"
    /\ last.outcome = "NotFound"

\* C3: modify_schedule without a schedule ID reports MissingArgument, opens
\* no connection and writes nothing, whichever fields are supplied.
C3_MissingScheduleId ==
    (/\ last.op = "modify_schedule"
     /\ last.args.schedule_id = NoneInt)
    => /\ last.outcome = "MissingArgument"
       /\ last.opened = 0
       /\ DB = pre

C3_Witness ==
    /\ last.op = "modify_schedule"
    /\ last.args.schedule_id = NoneInt
    /\ last.args.new_departure_time = "12:00"
    /\ last.args.new_status = "delayed"
    /\ last.outcome = "MissingArgument"

\* An answer has been given to the prompt of the assign_pilot call in `last`
Answered == last.op = "assign_pilot" /\ frame.answer # None

\* C4: at the confirmation prompt 'yes' (in any case) proceeds to the mutation,
\* 'no' (in any case) aborts with no change, and any other answer, however
\* often it is given, changes no data and leads back to the prompt.
C4_ConfirmationTokens ==
    Answered =>
        CASE Lower(frame.answer) = "yes" ->
                 pc = "returned" /\ last.outcome \in {"Assigned", "NotFound"}
          [] Lower(frame.answer) = "no" ->
                 pc = "returned" /\ last.outcome = "Aborted" /\ DB = pre
          [] OTHER ->
                 pc = "awaiting" /\ last.outcome = "AwaitingConfirmation" /\ DB = pre

\* C5: assign_pilot answered with a negative confirmation leaves every row of
\* every table as it was before the call.
C5_NegativeConfirmation ==
    (Answered /\ Lower(frame.answer) = "no")
    => /\ last.outcome = "Aborted"
       /\ DB = pre

C5_Witness ==
    /\ Answered
    /\ frame.answer = "No"
    /\ last.outcome = "Aborted"
    /\ flight_id_lookup(pre, frame.flight_number, frame.departure_city,
                        frame.arrival_city) # {}

\* No Flight has the flight number with a departure Destination in
\* departure_city and an arrival Destination in arrival_city
NoSuchFlight(db, args) ==
    ~ \E f \in DOMAIN db.d_flight, dd1, dd2 \in DOMAIN db.d_destination :
        /\ db.d_flight[f].flight_number = args.flight_number
        /\ db.d_flight[f].departure_destination_code = dd1
        /\ db.d_flight[f].arrival_destination_code = dd2
        /\ db.d_destination[dd1].city = args.departure_city
        /\ db.d_destination[dd2].city = args.arrival_city

\* C6: assign_pilot confirmed affirmatively, when no Flight matches the flight
\* number and the two cities, reports NotFound and leaves every row unchanged.
C6_NoMatchingFlight ==
    (/\ Answered
     /\ Lower(frame.answer) = "yes"
     /\ NoSuchFlight(pre, last.args))
    => /\ last.outcome = "NotFound"
       /\ DB = pre

C6_Witness ==
    /\ Answered
    /\ frame.answer = "YES"
    /\ NoSuchFlight(pre, last.args)
    /\ last.outcome = "NotFound"

\* C7: assign_pilot with a pilot_id but one or more of the four other arguments
\* missing reports IncompleteCriteria, never prompts, and mutates nothing.
C7_IncompleteCriteria ==
    (/\ last.op = "assign_pilot"
     /\ last.args.pilot_id # None
     /\ None \in {last.args.flight_number, last.args.departure_date,
                  last.args.departure_city, last.args.arrival_city})
    => /\ last.outcome = "IncompleteCriteria"
       /\ pc = "returned"
       /\ frame.answer = None
       /\ DB = pre

C7_Witness ==
    /\ last.op = "assign_pilot"
    /\ last.args.pilot_id = "P0010007"
    /\ last.args.flight_number = "SI2206"
    /\ last.args.departure_city = "Jersey"
    /\ last.args.arrival_city = None
    /\ last.outcome = "IncompleteCriteria"

\* C8: in every reachable state every schedule row's flight reference names an
\* existing Flight, its pilot reference is absent or names an existing Pilot,
\* and every Flight's two destination codes name existing Destinations.
C8_ReferentialIntegrity ==
    /\ \A k \in DOMAIN f_schedule :
          /\ f_schedule[k].flight_ID \in DOMAIN d_flight
          /\ \/ f_schedule[k].pilot_ID = None
             \/ f_schedule[k].pilot_ID \in DOMAIN d_pilot
    /\ \A f \in DOMAIN d_flight :
          /\ d_flight[f].departure_destination_code \in DOMAIN d_destination
          /\ d_flight[f].arrival_destination_code \in DOMAIN d_destination

\* C9: modify_destination with a code that matches no Destination changes no
\* row and does not raise, and the lookups it displays before and after the
\* update are both empty.
C9_UnknownDestinationCode ==
    (/\ last.op = "modify_destination"
     /\ last.args.destination_code # None
     /\ Upper(last.args.destination_code) \notin DOMAIN pre.d_destination)
    => /\ last.outcome = "Updated"
       /\ DB = pre
       /\ last.shown = <<{}, {}>>

\* The (flight, schedule) pairs find_flights is to return: every Flight with
\* each of its schedule rows, a Flight without one once with no schedule row,
\* restricted to the pairs that satisfy every supplied equality predicate
ExpectedFlights(db, args) ==
    {p \in (DOMAIN db.d_flight) \X ((DOMAIN db.f_schedule) \cup {NoneInt}) :
        LET f == p[1]
            k == p[2]
        IN  /\ IF k = NoneInt
               THEN \A j \in DOMAIN db.f_schedule : db.f_schedule[j].flight_ID # f
               ELSE db.f_schedule[k].flight_ID = f
            /\ Truthy(args.flight_number)
                  => db.d_flight[f].flight_number = args.flight_number
            /\ Truthy(args.departure_city)
                  => db.d_destination[db.d_flight[f].departure_destination_code].city
                         = args.departure_city
            /\ Truthy(args.arrival_city)
                  => db.d_destination[db.d_flight[f].arrival_destination_code].city
                         = args.arrival_city
            /\ Truthy(args.departure_date)
                  => k # NoneInt /\ db.f_schedule[k].departure_date = args.departure_date
            /\ Truthy(args.flight_status)
                  => k # NoneInt /\ db.f_schedule[k].status = args.flight_status}

\* The schedule rows find_pilots is to return: those with an existing Pilot
ExpectedPilots(db, args) ==
    {k \in DOMAIN db.f_schedule :
        LET p == db.f_schedule[k].pilot_ID
        IN  /\ p \in DOMAIN db.d_pilot
            /\ Truthy(args.pilot_id) => p = args.pilot_id
            /\ Truthy(args.first_name) => db.d_pilot[p].first_name = args.first_name
            /\ Truthy(args.last_name) => db.d_pilot[p].last_name = args.last_name}

\* The Destinations find_destinations is to return
ExpectedDestinations(db, args) ==
    {k \in DOMAIN db.d_destination :
        /\ Truthy(args.destination_code) => k = args.destination_code
        /\ Truthy(args.airport_name)
              => db.d_destination[k].airport_name = args.airport_name
        /\ Truthy(args.city) => db.d_destination[k].city = args.city
        /\ Truthy(args.country) => db.d_destination[k].country = args.country}

\* C10: fetch_flights, fetch_pilots and fetch_destinations return exactly the
\* rows of their base relation that satisfy every supplied equality predicate
\* (all of it when no filter is supplied), one result row per base row.
C10_FilteredReads ==
    /\ last.op = "fetch_flights"
          => /\ {<<r.flight_ID, r.schedule_ID>> : r \in last.shown[1]}
                    = ExpectedFlights(pre, last.args)
             /\ Cardinality(last.shown[1])
                    = Cardinality(ExpectedFlights(pre, last.args))
    /\ last.op = "fetch_pilots"
          => /\ {r.schedule_ID : r \in last.shown[1]} = ExpectedPilots(pre, last.args)
             /\ Cardinality(last.shown[1])
                    = Cardinality(ExpectedPilots(pre, last.args))
    /\ last.op = "fetch_destinations"
          => /\ {r.destination_code : r \in last.shown[1]}
                    = ExpectedDestinations(pre, last.args)
             /\ Cardinality(last.shown[1])
                    = Cardinality(ExpectedDestinations(pre, last.args))

\* Two filters, one of them on the arrival city, select some rows but not all
C10_Witness ==
    /\ last.op = "fetch_flights"
    /\ last.args.arrival_city = "Jersey"
    /\ last.args.departure_date = "2025-04-21"
    /\ last.args.flight_number = None
    /\ last.shown[1] # {}
    /\ Cardinality(last.shown[1]) < Cardinality(flight_query(pre))

\* The four tables as load_sample_data() leaves them
SeededDB ==
    [d_pilot |-> [k \in SeedKeys(pilots) |-> PilotRow(SeedRow(pilots, k))],
     d_destination |->
         [k \in SeedKeys(destinations) |-> DestinationRow(SeedRow(destinations, k))],
     d_flight |-> [k \in SeedKeys(flights) |-> FlightRow(SeedRow(flights, k))],
     f_schedule |-> [k \in SeedKeys(schedule) |-> ScheduleRow(SeedRow(schedule, k))]]

\* fetch_flights(flight_number="SI2203") has just run on the seeded tables
SeededFlightSI2203 ==
    /\ last.op = "fetch_flights"
    /\ last.args = [flight_number |-> "SI2203", departure_city |-> None,
                    arrival_city |-> None, departure_date |-> None,
                    flight_status |-> None]
    /\ pre = SeededDB

\* The result is exactly one row, from EXE (Exeter) to JER, flown by P0010002,
\* with the given status
OneRowExeterToJersey(result, status) ==
    \E r \in result :
        /\ result = {r}
        /\ r.flight_number = "SI2203"
        /\ pre.d_flight[r.flight_ID].departure_destination_code = "EXE"
        /\ r.departure_city = "Exeter"
        /\ pre.d_flight[r.flight_ID].arrival_destination_code = "JER"
        /\ r.pilot_ID = "P0010002"
        /\ r.status = status

\* C11 as stated: on the freshly seeded data fetch_flights(flight_number =
\* "SI2203") returns exactly one row, departing from EXE (Exeter), arriving at
\* JER, with pilot P0010002 and status "scheduled".
C11_SeededFlightScheduled ==
    SeededFlightSI2203 => OneRowExeterToJersey(last.shown[1], "scheduled")

\* C11 amended: on the freshly seeded data fetch_flights(flight_number =
\* "SI2203") returns exactly one row, departing from EXE (Exeter), arriving at
\* JER, with pilot P0010002 and status "landed".
C11_SeededFlightLanded ==
    SeededFlightSI2203 => OneRowExeterToJersey(last.shown[1], "landed")

\* SI2203 has been looked up on the seeded tables and a row was displayed
C11_Witness ==
    /\ SeededFlightSI2203
    /\ last.outcome = "Displayed"
    /\ last.shown[1] # {}

\* C12: on the seeded data unassigned_flights reports 2, schedule IDs 10 and 11
\* being the only rows without a pilot reference, and flights_per_pilot lists
\* pilot P0010002 with count 4.
C12_SeededSummaries ==
    /\ (last.op = "unassigned_flights" /\ pre = SeededDB)
          => /\ last.shown[1].result = 2
             /\ {k \in DOMAIN pre.f_schedule : pre.f_schedule[k].pilot_ID = None}
                    = {10, 11}
    /\ (last.op = "flights_per_pilot" /\ pre = SeededDB)
          => /\ \E r \in last.shown[1] :
                    r.pilot_id = "P0010002" /\ r.flight_count = 4
             /\ Cardinality({r \in last.shown[1] : r.pilot_id = "P0010002"}) = 1

\* flights_per_pilot has run on the seeded tables and listed P0010002
C12_Witness ==
    /\ last.op = "flights_per_pilot"
    /\ pre = SeededDB
    /\ \E r \in last.shown[1] : r.pilot_id = "P0010002"

\* C13: in every reachable state unassigned_flights reports exactly the number
\* of schedule rows whose pilot reference is absent, with the zero wording
\* when that number is 0, the singular wording when it is 1 and the plural
\* wording when it is 2 or more.
C13_UnassignedCount ==
    last.op = "unassigned_flights"
        => LET absent == {k \in DOMAIN pre.f_schedule :
                              pre.f_schedule[k].pilot_ID = None}
               n == Cardinality(absent)
           IN  /\ last.shown[1].result = n
               /\ n = 0 <=> last.shown[1].message = "No scheduled flights are lacking"
               /\ n = 1 <=> last.shown[1].message = "There is"
               /\ n >= 2 <=> last.shown[1].message = "There are"

\* Every schedule has been given a pilot and the summary has reported none left
C13_Witness ==
    /\ last.op = "unassigned_flights"
    /\ \A k \in DOMAIN pre.f_schedule : pre.f_schedule[k].pilot_ID # None
    /\ last.shown[1].result = 0

\* One schedule is left without a pilot and the summary has reported it
C13_SingularReported ==
    /\ last.op = "unassigned_flights"
    /\ last.shown[1].result = 1
    /\ last.shown[1].message = "There is"

\* C14: in every state reachable by modify_destination, modify_schedule and
\* assign_pilot calls, flights_per_destination reports one entry per arrival
\* destination that has at least one schedule with status exactly
\* "scheduled", and the entry's count is the number of such schedules whose
\* flight arrives there; two distinct destinations are never one entry.
C14_OneEntryPerArrivalDestination ==
    last.op = "flights_per_destination"
        => LET fs == pre.f_schedule
               arrival(k) == pre.d_flight[fs[k].flight_ID].arrival_destination_code
               scheduled(d) == {k \in DOMAIN fs : /\ fs[k].status = "scheduled"
                                                  /\ arrival(k) = d}
               served == {d \in DOMAIN pre.d_destination : scheduled(d) # {}}
           IN  /\ Cardinality(last.shown[1]) = Cardinality(served)
               /\ \A d \in served :
                     \E r \in last.shown[1] :
                        /\ r.airport_name = pre.d_destination[d].airport_name
                        /\ r.city = pre.d_destination[d].city
                        /\ r.country = pre.d_destination[d].country
                        /\ r.flight_count = Cardinality(scheduled(d))

\* C15: in every reachable state flights_per_pilot reports exactly one entry
\* for each pilot referenced by at least one schedule, with count equal to the
\* number of schedules referencing that pilot, and no entry for a pilot with
\* no assignment or for anything that is not a pilot.
C15_OneEntryPerAssignedPilot ==
    last.op = "flights_per_pilot"
        => LET fs == pre.f_schedule
               assignments(p) == {k \in DOMAIN fs : fs[k].pilot_ID = p}
               assigned == {p \in DOMAIN pre.d_pilot : assignments(p) # {}}
           IN  /\ \A p \in assigned :
                     /\ Cardinality({r \in last.shown[1] : r.pilot_id = p}) = 1
                     /\ \A r \in last.shown[1] :
                           r.pilot_id = p
                               => r.flight_count = Cardinality(assignments(p))
               /\ \A r \in last.shown[1] : r.pilot_id \in assigned

\* C16: every operation releases every connection it opened before it
\* returns, on every exit path: when modify_schedule (NotFound included),
\* assign_pilot (MissingArgument, IncompleteCriteria, NotFound, the negative
\* and the affirmative answer included), modify_destination, a read or a
\* summary has returned, no connection it opened is still open.
C16_ConnectionsReleased ==
    pc = "returned" => last.opened = last.closed

\* C17: assign_pilot called without a pilot_id reports MissingArgument and
\* returns without attempting any database access (no connection is opened,
\* no row is read or written) and without prompting.
C17_MissingPilotId ==
    (last.op = "assign_pilot" /\ last.args.pilot_id = None)
        => /\ last.outcome = "MissingArgument"
           /\ pc = "returned"
           /\ last.opened = 0
           /\ last.shown = <<>>
           /\ DB = pre

\* The three optional arguments of modify_schedule with the column of each
ScheduleFields(args) ==
    {<<"actual_departure_time", args.new_departure_time>>,
     <<"actual_arrival_time", args.new_arrival_time>>,
     <<"status", args.new_status>>}

\* C18: a successful modify_schedule on an existing schedule ID changes only
\* the supplied fields (actual departure time, actual arrival time, status) of
\* that one schedule: its ID, departure date, flight reference and pilot
\* reference, every unsupplied field, every other schedule and every other
\* table are unchanged; with none of the three supplied nothing changes.
C18_ScheduleFrame ==
    (last.op = "modify_schedule" /\ last.outcome = "Updated")
        => LET id == last.args.schedule_id
               before == pre.f_schedule[id]
               after == f_schedule[id]
           IN  /\ id \in DOMAIN pre.f_schedule
               /\ DOMAIN f_schedule = DOMAIN pre.f_schedule
               /\ \A k \in DOMAIN f_schedule \ {id} : f_schedule[k] = pre.f_schedule[k]
               /\ d_pilot = pre.d_pilot
               /\ d_destination = pre.d_destination
               /\ d_flight = pre.d_flight
               /\ after.departure_date = before.departure_date
               /\ after.flight_ID = before.flight_ID
               /\ after.pilot_ID = before.pilot_ID
               /\ \A p \in ScheduleFields(last.args) :
                     /\ p[2] = None => after[p[1]] = before[p[1]]
                     /\ after[p[1]] # before[p[1]] => after[p[1]] = p[2]
               /\ (\A p \in ScheduleFields(last.args) : p[2] = None) => DB = pre

\* A status alone was supplied for schedule 2 and that row has changed
C18_Witness ==
    /\ last.op = "modify_schedule"
    /\ last.outcome = "Updated"
    /\ last.args.schedule_id = 2
    /\ last.args.new_status = "delayed"
    /\ last.args.new_departure_time = None
    /\ last.args.new_arrival_time = None
    /\ f_schedule[2].status = "delayed"
    /\ pre.f_schedule[2].status = "scheduled"

\* modify_schedule was called with a schedule ID that exists and no field
C18_NothingSupplied ==
    /\ last.op = "modify_schedule"
    /\ last.outcome = "Updated"
    /\ \A p \in ScheduleFields(last.args) : p[2] = None

\* The flights with the flight number and the two cities of an assign_pilot call
FlightsNamed(db, args) ==
    {f \in DOMAIN db.d_flight :
        /\ db.d_flight[f].flight_number = args.flight_number
        /\ db.d_destination[db.d_flight[f].departure_destination_code].city
               = args.departure_city
        /\ db.d_destination[db.d_flight[f].arrival_destination_code].city
               = args.arrival_city}

\* C19: when assign_pilot is confirmed with "yes" and reports the assignment
\* as successful, afterwards a schedule with the resolved flight and the given
\* departure date exists and has its pilot reference equal to pilot_id, and
\* every schedule with a different flight or a different date is unchanged.
C19_AssignmentTakesEffect ==
    (last.op = "assign_pilot" /\ last.outcome = "Assigned")
        => \E f \in FlightsNamed(pre, last.args) :
              /\ \E k \in DOMAIN f_schedule :
                    /\ f_schedule[k].flight_ID = f
                    /\ f_schedule[k].departure_date = last.args.departure_date
                    /\ f_schedule[k].pilot_ID = last.args.pilot_id
              /\ DOMAIN f_schedule = DOMAIN pre.f_schedule
              /\ \A k \in DOMAIN pre.f_schedule :
                    (\/ pre.f_schedule[k].flight_ID # f
                     \/ pre.f_schedule[k].departure_date # last.args.departure_date)
                        => f_schedule[k] = pre.f_schedule[k]

\* The stored code and the code given to modify_destination are the same
\* letters, whatever their case
SameLetters(stored, given) ==
    \/ stored = given
    \/ \E spellings \in {{"EXE", "Exe", "exe"}, {"GCI", "gci"}, {"ZZZ", "zzz"}} :
          {stored, given} \subseteq spellings

\* The three optional arguments of modify_destination with the column of each
DestinationFields(args) ==
    {<<"airport_name", args.airport_name>>, <<"city", args.city>>,
     <<"country", args.country>>}

\* C20: modify_destination normalises the given code to upper case and, in
\* one transaction, changes only the supplied attributes (airport name, city,
\* country) of the destination whose code is the normalised code: the codes,
\* the unsupplied attributes, every other destination and every other table
\* are unchanged, and either all supplied attributes are persisted or none.
C20_DestinationFrame ==
    (last.op = "modify_destination" /\ last.args.destination_code # None)
        => LET addressed == {k \in DOMAIN pre.d_destination :
                                SameLetters(k, last.args.destination_code)}
               supplied == {p \in DestinationFields(last.args) : Truthy(p[2])}
           IN  /\ d_pilot = pre.d_pilot
               /\ d_flight = pre.d_flight
               /\ f_schedule = pre.f_schedule
               /\ DOMAIN d_destination = DOMAIN pre.d_destination
               /\ \A k \in DOMAIN d_destination \ addressed :
                     d_destination[k] = pre.d_destination[k]
               /\ \A k \in addressed :
                     /\ \A p \in DestinationFields(last.args) \ supplied :
                           d_destination[k][p[1]] = pre.d_destination[k][p[1]]
                     /\ IF last.outcome = "Updated"
                        THEN \A p \in supplied : d_destination[k][p[1]] = p[2]
                        ELSE d_destination[k] = pre.d_destination[k]

\* A lower-case code with two attributes has changed both on the row EXE
C20_Witness ==
    /\ last.op = "modify_destination"
    /\ last.outcome = "Updated"
    /\ last.args.destination_code = "exe"
    /\ last.args.airport_name = "Jersey Airport"
    /\ last.args.city = "Jersey"
    /\ last.args.country = None
    /\ pre.d_destination["EXE"].city = "Exeter"
    /\ d_destination["EXE"].city = "Jersey"
    /\ d_destination["EXE"].airport_name = "Jersey Airport"
    /\ d_destination["EXE"].country = "England"

\* A supplied attribute was rejected after another had been written, and the
\* row is as it was
C20_NonePersisted ==
    /\ last.op = "modify_destination"
    /\ last.outcome = "IntegrityError"
    /\ last.args.airport_name = "Jersey Airport"
    /\ pre.d_destination["EXE"].airport_name = "Exeter Airport"
    /\ last.args.destination_code = "exe"

\* C21: in any state reachable through modify_destination calls, when the
\* given flight number, departure city and arrival city match more than one
\* flight, an assign_pilot confirmed with "yes" reports AmbiguousMatch and
\* changes nothing, rather than assigning the pilot to one of the flights.
C21_AmbiguousMatch ==
    (/\ last.op = "assign_pilot"
     /\ pc = "returned"
     /\ Lower(frame.answer) = "yes"
     /\ Cardinality(FlightsNamed(pre, last.args)) > 1)
        => /\ last.outcome = "AmbiguousMatch"
           /\ DB = pre

\* C22: no operation of the query/update layer (the reads, modify_schedule,
\* assign_pilot, modify_destination, the three summaries), in any sequence,
\* changes, inserts or deletes a row of d_pilot or of d_flight: both tables
\* stay equal to their seeded contents.
C22_PilotsAndFlightsImmutable ==
    /\ d_pilot = SeededDB.d_pilot
    /\ d_flight = SeededDB.d_flight

\* All three updating operations have acted: a schedule is delayed, a
\* destination is renamed and a pilot has just been assigned
C22_Witness ==
    /\ last.op = "assign_pilot"
    /\ last.outcome = "Assigned"
    /\ f_schedule # pre.f_schedule
    /\ f_schedule[2].status = "delayed"
    /\ d_destination # SeededDB.d_destination
    /\ d_pilot = SeededDB.d_pilot
    /\ d_flight = SeededDB.d_flight

\* The primary keys and rows load_sample_data inserts into each table
SeedTable(name) == SeededDB[name]

\* C23: in load_sample_data an integrity violation raised while inserting
\* one table's batch is caught and reported and the batches of all remaining
\* tables are still attempted; the run ends normally, and on an already
\* fully seeded database it changes no row.
C23_SeedLoaderTolerant ==
    (last.op = "load_sample_data" /\ last.outcome # "Killed")
        => /\ last.outcome = "Seeded"
           /\ \A name \in DOMAIN SeededDB :
                 LET before == pre[name]
                     after == DB[name]
                     seed == SeedTable(name)
                 IN  /\ \A k \in DOMAIN before :
                           k \in DOMAIN after /\ after[k] = before[k]
                     /\ DOMAIN after \subseteq DOMAIN before \cup DOMAIN seed
                     /\ IF DOMAIN before \cap DOMAIN seed = {}
                        THEN /\ ~last.shown[1][name]
                             /\ \A k \in DOMAIN seed : after[k] = seed[k]
                        ELSE last.shown[1][name]
           /\ (\A name \in DOMAIN SeededDB :
                  DOMAIN SeedTable(name) \subseteq DOMAIN pre[name])
                 => DB = pre

\* The pilot batch was rejected as already present, and the flight and
\* schedule batches, whose tables were empty, were inserted all the same
C23_Witness ==
    /\ last.op = "load_sample_data"
    /\ last.outcome = "Seeded"
    /\ last.shown[1].d_pilot
    /\ last.shown[1].d_destination
    /\ pre.d_flight = <<>>
    /\ d_flight = SeededDB.d_flight
    /\ f_schedule = SeededDB.f_schedule

\* The loader has run on a fully seeded database in which a schedule had
\* been modified, all four batches were rejected and no row has changed
C23_RerunOnSeeded ==
    /\ last.op = "load_sample_data"
    /\ last.outcome = "Seeded"
    /\ \A name \in DOMAIN SeededDB : last.shown[1][name]
    /\ 2 \in DOMAIN pre.f_schedule
    /\ pre.f_schedule[2].status = "delayed"
    /\ DB = pre

====
